---- MODULE Spec2Model ----
(***************************************************************************)
(* Model of the background script of the DownloadStation browser          *)
(* extension: the pollTasks routine and its retry wrapper, the            *)
(* stored-state reactor, the single-URL submission flow and the older     *)
(* TaskPoller class.                                                       *)
(***************************************************************************)
EXTENDS Integers, Sequences, FiniteSets, TLC

(* ------------------------------------------------------------------ *)
(* Bounds of the model                                                  *)
(* ------------------------------------------------------------------ *)

\* how many pollTasks calls one behaviour may start
MaxPolls == 2

\* how far TaskPoller.tryPollCount may climb
MaxTryPolls == 3

\* how many addDownloadTaskAndPoll calls one behaviour may make
MaxAdds == 1

\* how many pollTasks calls the background script (reactor and interval
\* timer) may start in one behaviour
MaxBackgroundPolls == 1

(* ------------------------------------------------------------------ *)
(* Values                                                               *)
(* ------------------------------------------------------------------ *)

NO_PERMISSIONS_ERROR_CODE == 105

\* Date.now() when the background script was loaded.  The program only asks of
\* a timestamp whether it is null and whether it is later than START_TIME, so
\* the clock has two values: still START_TIME, or later.
START_TIME == 0
Later == START_TIME + 1

\* tasksLast*FetchTimestamp: null
NullTimestamp == -1

Task(id, status) == [id |-> id, status |-> status]

\* the task lists a Task.List response may carry (the cache starts out with
\* one of them or empty)
TaskLists ==
  { << Task(1, "downloading") >>,
    << Task(1, "finished"), Task(2, "downloading") >> }

\* error codes of an unsuccessful response: the no-permissions code and another one
ErrorCodes == { NO_PERMISSIONS_ERROR_CODE, NO_PERMISSIONS_ERROR_CODE - 5 }

\* what a remote call (Task.List, Task.Create) settles with:
\*   a ConnectionFailure (type "missing-config" or another type),
\*   a SynologyResponse (type "response": success with data, or an error code),
\*   or a rejection of the promise (type "throw")
Outcome(type, success, code, tasks) ==
  [type |-> type, success |-> success, code |-> code, tasks |-> tasks]

NoOutcome == Outcome("none", FALSE, 0, <<>>)
Thrown == Outcome("throw", FALSE, 0, <<>>)
ConnectionFailures ==
  { Outcome(t, FALSE, 0, <<>>) : t \in {"missing-config", "timeout"} }
SuccessResponses == { Outcome("response", TRUE, 0, ts) : ts \in TaskLists }
ErrorResponses == { Outcome("response", FALSE, c, <<>>) : c \in ErrorCodes }
Outcomes == ConnectionFailures \cup SuccessResponses \cup ErrorResponses \cup {Thrown}

isConnectionFailure(result) == result.type \notin {"response", "throw", "none"}

\* taskFetchFailureReason: null, 'missing-config' or { failureMessage }
FailureReason(kind, of, code) == [kind |-> kind, of |-> of, code |-> code]
NullReason == FailureReason("null", "", 0)
MissingConfig == FailureReason("missing-config", "", 0)
errorMessageFromConnectionFailure(response) ==
  FailureReason("failureMessage", response.type, 0)
errorMessageFromCode(code) == FailureReason("failureMessage", "code", code)

(* ------------------------------------------------------------------ *)
(* State                                                                *)
(* ------------------------------------------------------------------ *)

VARIABLES
  storage,        \* browser.storage.local: the cached tasks record
  storageWrites,  \* browser.storage.local.set calls issued and not yet settled, in order
  polls,          \* the pollTasks calls started so far, in the order of their start
  now,            \* Date.now()
  stateChanged,   \* the storage changed and onStoredStateChange has not yet delivered it
  apiSettings,    \* the settings the ApiClient holds
  notificationSettings,  \* background script: notificationSettings
  notificationInterval,  \* background script: notificationInterval (0: undefined)
  intervals,      \* the interval timers that are active: [id, period]
  browserAction,  \* icon, badge text and badge background colour
  finishedTaskIds,       \* background script: finishedTaskIds
  finishedNotified,      \* the ids of the tasks 'Download finished' was notified for, in order
  tryPollCount,   \* TaskPoller.tryPollCount
  settings,       \* TaskPoller.settings
  requests,       \* TaskPoller: the tryPoll calls whose pollPromise has not settled
  timers,         \* TaskPoller: the setTimeout callbacks scheduled and not yet run
  topChain,       \* TaskPoller: the count of the latest tryPoll made by updateSettings
  adds,           \* the addDownloadTaskAndPoll calls made so far, in the order of their start
  batches,        \* the addDownloadTasksAndPoll calls made so far, in the order of their start
  menuNotified    \* the notifications the context-menu handler has issued itself

reactorVars ==
  << apiSettings, notificationSettings, notificationInterval, intervals,
     browserAction, finishedTaskIds, finishedNotified >>
backgroundVars == << polls, stateChanged, reactorVars >>
pollerVars == << tryPollCount, settings, requests, timers, topChain >>
addVars == << adds, batches, menuNotified >>
vars == << storage, storageWrites, now, backgroundVars, pollerVars, addVars >>

(* ------------------------------------------------------------------ *)
(* wrapInNoPermissionsRetry                                             *)
(* ------------------------------------------------------------------ *)

\* a call of a wrapped function: the events it has issued so far ("call" is a
\* call of the underlying remote function, "logout" is api.Auth.Logout()),
\* what the first and second underlying calls settled with, and the result
\* the wrapper hands to its caller
NewCall ==
  [phase |-> "call1", events |-> << "call" >>,
   first |-> NoOutcome, second |-> NoOutcome, result |-> NoOutcome]

CallInFlight(call) == call.phase \in {"call1", "call2"}

Count(seq, e) == Cardinality({ i \in 1..Len(seq) : seq[i] = e })

\* mutant: retries on every unsuccessful response, whatever its error code
NeedsRetryOnAnyError(result) ==
  ~isConnectionFailure(result) /\ ~result.success

NeedsRetry(result) ==
  /\ ~isConnectionFailure(result)
  /\ ~result.success
  /\ result.code = NO_PERMISSIONS_ERROR_CODE

\* mutant: on a retry the second call is issued before api.Auth.Logout()
wrapInNoPermissionsRetryCallsFirst(call, outcome) ==
  IF call.phase = "call1"
    THEN IF outcome.type = "throw"
           THEN [call EXCEPT !.phase = "rejected", !.first = outcome]
         ELSE IF NeedsRetry(outcome)
           THEN [call EXCEPT !.phase = "call2", !.first = outcome,
                             !.events = call.events \o << "call", "logout" >>]
         ELSE [call EXCEPT !.phase = "returned", !.first = outcome,
                           !.result = outcome]
    ELSE IF outcome.type = "throw"
           THEN [call EXCEPT !.phase = "rejected", !.second = outcome]
         ELSE [call EXCEPT !.phase = "returned", !.second = outcome,
                           !.result = outcome]

\* the underlying call of `call` settles with `outcome`
wrapInNoPermissionsRetry(call, outcome) ==
  IF call.phase = "call1"
    THEN IF outcome.type = "throw"
           THEN [call EXCEPT !.phase = "rejected", !.first = outcome]
         ELSE IF NeedsRetry(outcome)
           THEN [call EXCEPT !.phase = "call2", !.first = outcome,
                             !.events = call.events \o << "logout", "call" >>]
         ELSE [call EXCEPT !.phase = "returned", !.first = outcome,
                           !.result = outcome]
    ELSE IF outcome.type = "throw"
           THEN [call EXCEPT !.phase = "rejected", !.second = outcome]
         ELSE [call EXCEPT !.phase = "returned", !.second = outcome,
                           !.result = outcome]

(* ------------------------------------------------------------------ *)
(* browser.storage.local                                                *)
(* ------------------------------------------------------------------ *)

\* storage.local.set(data) merges the keys of data into the stored record
StorageSet(stored, data) ==
  [k \in DOMAIN stored |-> IF k \in DOMAIN data THEN data[k] ELSE stored[k]]

Write(kind, poll, data) == [kind |-> kind, poll |-> poll, data |-> data]

emptyState ==
  [tasks |-> <<>>,
   taskFetchFailureReason |-> NullReason,
   tasksLastCompletedFetchTimestamp |-> NullTimestamp,
   tasksLastInitiatedFetchTimestamp |-> NullTimestamp]

(* ------------------------------------------------------------------ *)
(* pollTasks                                                            *)
(* ------------------------------------------------------------------ *)

\* by: who called pollTasks ("caller", "reactor", "interval", "add" or "addTasks")
\* settings: the settings the ApiClient held when the Task.List call that
\* is in flight, or has returned, was issued
\* cached: the task list the cache holds is the one this poll stored
NewPoll(by) ==
  [pc |-> "waiting", initWrite |-> "pending", call |-> NewCall, by |-> by,
   settings |-> apiSettings, cached |-> FALSE]

IsSettled(poll) ==
  poll.pc \in {"done", "threw"} /\ poll.call.phase \in {"returned", "rejected"}

\* Once the promise of a poll and its remote call have both settled, nothing
\* of the program refers to them any more: the record keeps how the poll
\* ended and drops the history of its call.  The response it handled is kept
\* only while the poll is the most recently initiated one (newest).
Settled(poll, newest) ==
  IF IsSettled(poll)
    THEN [poll EXCEPT !.call = [NewCall EXCEPT !.phase = poll.call.phase,
                                               !.events = <<>>,
                                               !.result = IF newest THEN poll.call.result
                                                          ELSE NoOutcome],
                      !.settings = IF poll.cached THEN poll.settings ELSE "unset"]
    ELSE poll

\* the cache holds the task list poll p stored (p = 0: the cache was cleared)
CachedBy(ps, p) ==
  [q \in 1..Len(ps) |-> Settled([ps[q] EXCEPT !.cached = (q = p)], q = Len(ps))]

PollInFlight(poll) == poll.pc \in {"waiting", "writing"}

cachedTasksInit(t) == [tasksLastInitiatedFetchTimestamp |-> t]

\* pollTasks(api) up to the Promise.all: the write of the initiated timestamp
\* and doTaskPoll(api) are both issued.  The result is << polls, storageWrites >>.
pollTasks(ps, ws, t, by) ==
  << Append([p \in 1..Len(ps) |-> Settled(ps[p], FALSE)], NewPoll(by)),
     Append(ws, Write("init", Len(ps) + 1, cachedTasksInit(t))) >>

\* mutant: a successful response does not reset the failure reason
setCachedTasksResponseKeepsReason(response, t) ==
  IF isConnectionFailure(response)
    THEN IF response.type = "missing-config"
           THEN [tasksLastCompletedFetchTimestamp |-> t,
                 taskFetchFailureReason |-> MissingConfig]
           ELSE [tasksLastCompletedFetchTimestamp |-> t,
                 taskFetchFailureReason |-> errorMessageFromConnectionFailure(response)]
  ELSE IF response.success
    THEN [tasksLastCompletedFetchTimestamp |-> t,
          tasks |-> response.tasks]
  ELSE [tasksLastCompletedFetchTimestamp |-> t,
        taskFetchFailureReason |-> errorMessageFromCode(response.code)]

\* mutant: a failure empties the cached task list
setCachedTasksResponseDropsTasks(response, t) ==
  IF isConnectionFailure(response)
    THEN IF response.type = "missing-config"
           THEN [tasksLastCompletedFetchTimestamp |-> t,
                 tasks |-> <<>>,
                 taskFetchFailureReason |-> MissingConfig]
           ELSE [tasksLastCompletedFetchTimestamp |-> t,
                 tasks |-> <<>>,
                 taskFetchFailureReason |-> errorMessageFromConnectionFailure(response)]
  ELSE IF response.success
    THEN [tasksLastCompletedFetchTimestamp |-> t,
          tasks |-> response.tasks,
          taskFetchFailureReason |-> NullReason]
  ELSE [tasksLastCompletedFetchTimestamp |-> t,
        tasks |-> <<>>,
        taskFetchFailureReason |-> errorMessageFromCode(response.code)]

\* the record the .then handler writes for `response`
setCachedTasksResponse(response, t) ==
  IF isConnectionFailure(response)
    THEN IF response.type = "missing-config"
           THEN [tasksLastCompletedFetchTimestamp |-> t,
                 taskFetchFailureReason |-> MissingConfig]
           ELSE [tasksLastCompletedFetchTimestamp |-> t,
                 taskFetchFailureReason |-> errorMessageFromConnectionFailure(response)]
  ELSE IF response.success
    THEN [tasksLastCompletedFetchTimestamp |-> t,
          tasks |-> response.tasks,
          taskFetchFailureReason |-> NullReason]
  ELSE [tasksLastCompletedFetchTimestamp |-> t,
        taskFetchFailureReason |-> errorMessageFromCode(response.code)]

\* mutant: the catch handler stores a failure reason
pollTasksThenStoresFailure(ps, ws, p, t) ==
  IF ps[p].pc # "waiting"
    THEN << ps, ws >>
  ELSE IF ps[p].initWrite = "rejected" \/ ps[p].call.phase = "rejected"
    THEN << [ps EXCEPT ![p].pc = "threw"],
            Append(ws, Write("final", p, [taskFetchFailureReason |-> MissingConfig])) >>
  ELSE IF ps[p].initWrite = "ok" /\ ps[p].call.phase = "returned"
    THEN << [ps EXCEPT ![p].pc = "writing"],
            Append(ws, Write("final", p, setCachedTasksResponse(ps[p].call.result, t))) >>
  ELSE << ps, ws >>

\* Promise.all([...]).then(...).catch(...) of poll p, run after one of its two
\* promises has settled: a rejection goes to the catch handler, which only
\* logs; once both are fulfilled the .then handler issues the final write.
pollTasksThen(ps, ws, p, t) ==
  IF ps[p].pc # "waiting"
    THEN << ps, ws >>
  ELSE IF ps[p].initWrite = "rejected" \/ ps[p].call.phase = "rejected"
    THEN << [ps EXCEPT ![p].pc = "threw"], ws >>
  ELSE IF ps[p].initWrite = "ok" /\ ps[p].call.phase = "returned"
    THEN << [ps EXCEPT ![p].pc = "writing"],
            Append(ws, Write("final", p, setCachedTasksResponse(ps[p].call.result, t))) >>
  ELSE << ps, ws >>

(* ------------------------------------------------------------------ *)
(* The stored-state reactor of the background script                    *)
(* ------------------------------------------------------------------ *)

\* the connection settings the options page may store
Connections == {"nas1", "nas2"}

NotificationSettings(enabled, pollingInterval) ==
  [enabled |-> enabled, pollingInterval |-> pollingInterval]

\* DEFAULT_SETTINGS.notifications of ../common/state
DEFAULT_NOTIFICATIONS == NotificationSettings(FALSE, 60)

\* the notification settings the options page may store
NotificationChoices ==
  { NotificationSettings(FALSE, 60), NotificationSettings(TRUE, 60),
    NotificationSettings(TRUE, 30) }

isEqual(a, b) == a = b

BrowserAction(icon, text, color) ==
  [icon |-> icon, badgeText |-> text, badgeColor |-> color]

\* mutant: the badge always shows the number of tasks
BadgeTextAlwaysCount(tasks) == ToString(Len(tasks))

\* storedState.tasks.length === 0 ? '' : storedState.tasks.length.toString()
BadgeText(tasks) == IF Len(tasks) = 0 THEN "" ELSE ToString(Len(tasks))

\* the icon and badge the callback sets for storedState
setBrowserAction(storedState) ==
  IF storedState.taskFetchFailureReason # NullReason
    THEN BrowserAction("icon-disabled", "", "red")
    ELSE BrowserAction("icon", BadgeText(storedState.tasks), "green")

\* clearCachedTasks()
clearCachedTasks(ws) == Append(ws, Write("clear", 0, emptyState))

\* clearCachedTasks().then(() => { pollTasks(api); })
AfterClear(ps, ws, t) == pollTasks(ps, ws, t, "reactor")

\* setInterval returns an id that no active timer has
NewIntervalId(active) ==
  CHOOSE i \in 1..(Cardinality(active) + 1) : \A t \in active : t.id # i

clearInterval(active, id) == { t \in active : t.id # id }

\* mutant: the old interval timer is not cleared before a new one is set
UpdateNotificationIntervalKeepsTimer(n) ==
  IF ~isEqual(n, notificationSettings)
    THEN LET id == NewIntervalId(intervals)
         IN IF n.enabled
              THEN << n, id, intervals \cup {[id |-> id, period |-> n.pollingInterval * 1000]} >>
              ELSE << n, notificationInterval, intervals >>
    ELSE << notificationSettings, notificationInterval, intervals >>

\* the callback's update of the interval timer for the stored notification
\* settings n: << notificationSettings, notificationInterval, intervals >>
UpdateNotificationInterval(n) ==
  IF ~isEqual(n, notificationSettings)
    THEN LET cleared == clearInterval(intervals, notificationInterval)
             id == NewIntervalId(cleared)
         IN IF n.enabled
              THEN << n, id, cleared \cup {[id |-> id, period |-> n.pollingInterval * 1000]} >>
              ELSE << n, notificationInterval, cleared >>
    ELSE << notificationSettings, notificationInterval, intervals >>

\* let finishedTaskIds: string[] | undefined
Undefined == [defined |-> FALSE, ids |-> << >>]
TaskIds(ids) == [defined |-> TRUE, ids |-> ids]

indexOf(ids, id) ==
  IF \E i \in 1..Len(ids) : ids[i] = id
    THEN (CHOOSE i \in 1..Len(ids) : ids[i] = id /\ \A j \in 1..(i - 1) : ids[j] # id) - 1
    ELSE 0 - 1

\* tasksLastCompletedFetchTimestamp != null && tasksLastCompletedFetchTimestamp > START_TIME
\*   && taskFetchFailureReason == null
isCompletedSinceStart(storedState) ==
  /\ storedState.tasksLastCompletedFetchTimestamp # NullTimestamp
  /\ storedState.tasksLastCompletedFetchTimestamp > START_TIME
  /\ storedState.taskFetchFailureReason = NullReason

\* storedState.tasks.filter(t => t.status === 'finished' || t.status === 'seeding').map(t => t.id)
updatedFinishedTaskIds(tasks) ==
  LET done == SelectSeq(tasks, LAMBDA t : t.status = "finished" \/ t.status = "seeding")
  IN [i \in 1..Len(done) |-> done[i].id]

\* mutant: the first snapshot is compared with an empty list
newlyFinishedTaskIdsFromEmpty(tasks, finished) ==
  SelectSeq(updatedFinishedTaskIds(tasks), LAMBDA id : indexOf(finished.ids, id) = 0 - 1)

\* the ids the callback notifies for: none while finishedTaskIds is undefined
newlyFinishedTaskIds(tasks, finished) ==
  IF finished.defined
    THEN SelectSeq(updatedFinishedTaskIds(tasks), LAMBDA id : indexOf(finished.ids, id) = 0 - 1)
    ELSE << >>

\* newlyFinishedTaskIds.forEach(...): notify(task.title, 'Download finished')
\* when storedState.notifications.enabled
notifyFinished(log, storedState, newly) ==
  IF storedState.notifications.enabled THEN log \o newly ELSE log

\* mutant: finishedTaskIds is replaced by the finished ids of the snapshot
concatFinishedTaskIdsReplaces(finished, tasks) ==
  TaskIds(updatedFinishedTaskIds(tasks))

\* finishedTaskIds = (finishedTaskIds || []).concat(updatedFinishedTaskIds.filter(...))
concatFinishedTaskIds(finished, tasks) ==
  TaskIds(finished.ids \o SelectSeq(updatedFinishedTaskIds(tasks),
                                    LAMBDA id : ~finished.defined \/ indexOf(finished.ids, id) = 0 - 1))

\* what counts against MaxBackgroundPolls: the polls started, and the
\* clearCachedTasks() writes still pending (the .then callback of each polls)
PollsClaimed ==
  Len(polls) + Cardinality({ i \in 1..Len(storageWrites) : storageWrites[i].kind = "clear" })

\* the clearCachedTasks() call the next delivery makes if the stored
\* connection is c and differs from the one the ApiClient holds
ClearOwed(c) == IF c # apiSettings THEN 1 ELSE 0

\* onStoredStateChange delivers the stored state to the callback
StoredStateChange ==
  /\ stateChanged
  /\ stateChanged' = FALSE
  /\ LET storedState == storage
         didUpdateSettings == storedState.connection # apiSettings
         timer == UpdateNotificationInterval(storedState.notifications)
     IN /\ apiSettings' = storedState.connection
        /\ storageWrites' = IF didUpdateSettings
                              THEN clearCachedTasks(storageWrites)
                              ELSE storageWrites
        /\ notificationSettings' = timer[1]
        /\ notificationInterval' = timer[2]
        /\ intervals' = timer[3]
        /\ browserAction' = setBrowserAction(storedState)
        /\ IF isCompletedSinceStart(storedState)
             THEN LET newly == newlyFinishedTaskIds(storedState.tasks, finishedTaskIds)
                  IN /\ finishedNotified' = notifyFinished(finishedNotified, storedState, newly)
                     /\ finishedTaskIds' = concatFinishedTaskIds(finishedTaskIds, storedState.tasks)
             ELSE UNCHANGED << finishedTaskIds, finishedNotified >>
  /\ UNCHANGED << storage, polls, now, pollerVars, addVars >>

\* the options page stores other connection settings
ChangeConnection ==
  \E c \in Connections :
    /\ c # storage.connection
    /\ PollsClaimed + ClearOwed(c) <= MaxBackgroundPolls
    /\ storage' = [storage EXCEPT !.connection = c]
    /\ stateChanged' = TRUE
    /\ UNCHANGED << storageWrites, polls, now, reactorVars, pollerVars, addVars >>

\* the options page stores other connection settings once more, while the
\* poll that followed the earlier settings may still be in flight
ChangeConnectionAgain ==
  \E c \in Connections :
    /\ c # storage.connection
    /\ PollsClaimed + ClearOwed(c) <= MaxBackgroundPolls + 1
    /\ storage' = [storage EXCEPT !.connection = c]
    /\ stateChanged' = TRUE
    /\ UNCHANGED << storageWrites, polls, now, reactorVars, pollerVars, addVars >>

\* the options page stores other notification settings
ChangeNotifications ==
  \E n \in NotificationChoices :
    /\ n # storage.notifications
    /\ storage' = [storage EXCEPT !.notifications = n]
    /\ stateChanged' = TRUE
    /\ UNCHANGED << storageWrites, polls, now, reactorVars, pollerVars, addVars >>

\* an interval timer of the background script fires: pollTasks(api)
IntervalFires ==
  \E timer \in intervals :
    /\ PollsClaimed + ClearOwed(storage.connection) < MaxBackgroundPolls
    /\ LET r == pollTasks(polls, storageWrites, now, "interval")
       IN /\ polls' = r[1]
          /\ storageWrites' = r[2]
    /\ UNCHANGED << storage, now, stateChanged, reactorVars, pollerVars, addVars >>

(* ------------------------------------------------------------------ *)
(* Actions                                                              *)
(* ------------------------------------------------------------------ *)

\* some caller (interval timer, settings change, submission) calls pollTasks(api)
PollTasks ==
  /\ Len(polls) < MaxPolls
  /\ LET r == pollTasks(polls, storageWrites, now, "caller")
     IN /\ polls' = r[1]
        /\ storageWrites' = r[2]
  /\ UNCHANGED << storage, now, stateChanged, reactorVars, pollerVars, addVars >>

\* the remote Task.List call of poll p settles
TaskListSettles ==
  \E p \in 1..Len(polls), outcome \in Outcomes :
    /\ CallInFlight(polls[p].call)
    /\ LET call == wrapInNoPermissionsRetry(polls[p].call, outcome)
           ps == [polls EXCEPT ![p].call = call,
                               ![p].settings = IF call.phase = "call2" THEN apiSettings ELSE @]
           r == pollTasksThen(ps, storageWrites, p, now)
       IN /\ polls' = [r[1] EXCEPT ![p] = Settled(@, p = Len(polls))]
          /\ storageWrites' = r[2]
    /\ UNCHANGED << storage, now, stateChanged, reactorVars, pollerVars, addVars >>

\* the oldest pending storage.local.set is applied and its promise fulfilled:
\* of a poll's first write, the Promise.all goes on; of a poll's final write,
\* the poll is done; of clearCachedTasks(), its .then callback calls pollTasks
StorageSetFulfilled ==
  /\ storageWrites # <<>>
  /\ Head(storageWrites).kind \in {"init", "final", "clear"}
  /\ LET w == Head(storageWrites)
         rest == Tail(storageWrites)
     IN /\ storage' = StorageSet(storage, w.data)
        /\ IF w.kind = "init"
             THEN LET r == pollTasksThen([polls EXCEPT ![w.poll].initWrite = "ok"],
                                         rest, w.poll, now)
                  IN polls' = r[1] /\ storageWrites' = r[2]
           ELSE IF w.kind = "final"
             THEN /\ polls' = LET ps == [polls EXCEPT ![w.poll].pc = "done"]
                              IN IF "tasks" \in DOMAIN w.data
                                   THEN CachedBy(ps, w.poll)
                                   ELSE [ps EXCEPT ![w.poll] = Settled(@, w.poll = Len(polls))]
                  /\ storageWrites' = rest
           ELSE LET r == AfterClear(CachedBy(polls, 0), rest, now)
                IN polls' = r[1] /\ storageWrites' = r[2]
  /\ stateChanged' = TRUE
  /\ UNCHANGED << now, reactorVars, pollerVars, addVars >>

\* the oldest pending storage.local.set is rejected: nothing is stored
StorageSetRejected ==
  /\ storageWrites # <<>>
  /\ Head(storageWrites).kind \in {"init", "final", "clear"}
  /\ LET w == Head(storageWrites)
         rest == Tail(storageWrites)
     IN IF w.kind = "init"
          THEN LET r == pollTasksThen([polls EXCEPT ![w.poll].initWrite = "rejected"],
                                      rest, w.poll, now)
               IN polls' = r[1] /\ storageWrites' = r[2]
        ELSE IF w.kind = "final"
          THEN /\ polls' = [polls EXCEPT ![w.poll] =
                              Settled([@ EXCEPT !.pc = "threw"], w.poll = Len(polls))]
               /\ storageWrites' = rest
        ELSE /\ polls' = polls
             /\ storageWrites' = rest
  /\ UNCHANGED << storage, now, stateChanged, reactorVars, pollerVars, addVars >>

Tick ==
  /\ now = START_TIME
  /\ now' = Later
  /\ UNCHANGED << storage, storageWrites, backgroundVars, pollerVars, addVars >>

(* ------------------------------------------------------------------ *)
(* TaskPoller                                                           *)
(* ------------------------------------------------------------------ *)

DEFAULT_SETTINGS ==
  [enabled |-> FALSE, hostname |-> "", sid |-> "undefined", interval |-> 60]

\* the Partial<PollerSettings> that callers pass to updateSettings
SettingsUpdates ==
  { [enabled |-> TRUE], [enabled |-> FALSE],
    [hostname |-> "nas", sid |-> "sid"], [sid |-> "undefined"],
    [interval |-> 30], [interval |-> 60] }

\* { ...a, ...b }
Spread(a, b) == [k \in DOMAIN a |-> IF k \in DOMAIN b THEN b[k] ELSE a[k]]

shallowEqual(a, b) == DOMAIN a = DOMAIN b /\ \A k \in DOMAIN a : a[k] = b[k]

\* mutant: the interval takes part in the comparison
WithoutIntervalKeepsIt(s) == s

\* { ...settings, interval: undefined }
WithoutInterval(s) == [s EXCEPT !.interval = 0]

\* what Task.List of the older api module settles with: a response or a rejection
PollerOutcomes == SuccessResponses \cup ErrorResponses \cup {Thrown}

PollerCache ==
  [tasks |-> <<>>,
   tasksFetchFailureMessage |-> NullReason,
   tasksFetchUpdateTimestamp |-> NullTimestamp]

\* the record the .then handler stores for `response`
PollerCachedTasks(response, t) ==
  IF response.success
    THEN [tasks |-> response.tasks,
          tasksFetchFailureMessage |-> NullReason,
          tasksFetchUpdateTimestamp |-> t]
    ELSE [tasksFetchFailureMessage |-> errorMessageFromCode(response.code),
          tasksFetchUpdateTimestamp |-> t]

\* the record the .catch handler stores
PollerFailure(t) ==
  [tasksFetchFailureMessage |-> FailureReason("failureMessage", "error", 0),
   tasksFetchUpdateTimestamp |-> t]

\* the record stored when hostname or sid is missing
PollerMissingConfig(t) ==
  [tasksFetchFailureMessage |-> FailureReason("failureMessage", "not-set", 0),
   tasksFetchUpdateTimestamp |-> t]

Request(count, chain, pc) == [count |-> count, chain |-> chain, pc |-> pc]

Timer(count, chain, interval) ==
  [count |-> count, chain |-> chain, interval |-> interval]

\* mutant: the timer callback calls tryPoll whatever the count is
ChainAlwaysCurrent(count, current) == TRUE

\* the timer callback's test: no other tryPoll was made since this chain's last one
ChainStillCurrent(count, current) == count = current

\* tryPoll(), called with the settings st; chain is the count of the
\* updateSettings call that began the chain of tryPoll calls this one belongs
\* to.  ws are the pending storage writes.  With hostname or sid missing the
\* write is made by the callback of Promise.resolve().then(...), which runs
\* when the code that called updateSettings has returned.
tryPoll(st, chain, ws) ==
  LET count == tryPollCount + 1
  IN /\ tryPollCount' = count
     /\ IF st.enabled
          THEN IF st.hostname # "" /\ st.sid \notin {"undefined", ""}
                 THEN /\ requests' = requests \cup {Request(count, chain, "list")}
                      /\ storageWrites' = ws
                 ELSE /\ requests' = requests \cup {Request(count, chain, "missing")}
                      /\ storageWrites' = ws
          ELSE /\ requests' = requests
               /\ storageWrites' = ws

\* updateSettings(u)
UpdateSettings ==
  \E u \in SettingsUpdates :
    LET newSettings == Spread(settings, u)
        oldSettings == settings
    IN /\ settings' = newSettings
       /\ IF ~shallowEqual(WithoutInterval(newSettings), WithoutInterval(oldSettings))
            THEN /\ tryPollCount < MaxTryPolls
                 /\ tryPoll(newSettings, tryPollCount + 1, storageWrites)
                 /\ topChain' = tryPollCount + 1
            ELSE UNCHANGED << tryPollCount, requests, storageWrites, topChain >>
       /\ UNCHANGED << storage, now, timers, backgroundVars, addVars >>

\* a callback of Promise.resolve().then(...) is waiting to run: no timer
\* callback, response or storage result is handled before it
MicrotaskPending == \E r \in requests : r.pc = "missing"

\* the callback of Promise.resolve().then(...) of the missing-hostname branch
\* runs: browser.storage.local.set(cachedTasks)
MissingThen ==
  \E r \in requests :
    /\ r.pc = "missing"
    /\ requests' = (requests \ {r}) \cup {[r EXCEPT !.pc = "missingWrite"]}
    /\ storageWrites' =
         Append(storageWrites, Write("poller", r.count, PollerMissingConfig(now)))
    /\ UNCHANGED << storage, now, tryPollCount, settings, timers, topChain,
                    backgroundVars, addVars >>

\* pollPromise of request r is fulfilled: the timer is scheduled if still enabled
PollPromiseFulfilled(r) ==
  IF settings.enabled
    THEN timers \cup {Timer(r.count, r.chain, settings.interval)}
    ELSE timers

\* Task.List of a request settles: the .then handler, or the .catch handler
\* when the promise is rejected
PollerListSettles ==
  \E r \in requests, outcome \in PollerOutcomes :
    /\ ~MicrotaskPending
    /\ r.pc = "list"
    /\ IF settings.enabled
         THEN /\ requests' = (requests \ {r}) \cup
                   {[r EXCEPT !.pc = IF outcome.type = "throw"
                                       THEN "catchWrite" ELSE "write"]}
              /\ storageWrites' =
                   Append(storageWrites,
                          Write("poller", r.count,
                                IF outcome.type = "throw"
                                  THEN PollerFailure(now)
                                  ELSE PollerCachedTasks(outcome, now)))
              /\ timers' = timers
         ELSE /\ requests' = requests \ {r}
              /\ storageWrites' = storageWrites
              /\ timers' = PollPromiseFulfilled(r)
    /\ UNCHANGED << storage, now, tryPollCount, settings, topChain, backgroundVars, addVars >>

\* the oldest pending storage.local.set of the TaskPoller is fulfilled
PollerStorageSetFulfilled ==
  /\ ~MicrotaskPending
  /\ storageWrites # <<>>
  /\ Head(storageWrites).kind = "poller"
  /\ LET w == Head(storageWrites)
         r == CHOOSE x \in requests : x.count = w.poll
     IN /\ storage' = StorageSet(storage, w.data)
        /\ storageWrites' = Tail(storageWrites)
        /\ requests' = requests \ {r}
        /\ timers' = PollPromiseFulfilled(r)
  /\ UNCHANGED << now, tryPollCount, settings, topChain, backgroundVars, addVars >>

\* the oldest pending storage.local.set of the TaskPoller is rejected: a
\* rejection in the .then handler goes to the .catch handler; a rejection in
\* the .catch handler or in the missing-hostname branch rejects pollPromise
PollerStorageSetRejected ==
  /\ ~MicrotaskPending
  /\ storageWrites # <<>>
  /\ Head(storageWrites).kind = "poller"
  /\ LET w == Head(storageWrites)
         r == CHOOSE x \in requests : x.count = w.poll
     IN IF r.pc = "write"
          THEN IF settings.enabled
                 THEN /\ requests' = (requests \ {r}) \cup {[r EXCEPT !.pc = "catchWrite"]}
                      /\ storageWrites' =
                           Append(Tail(storageWrites),
                                  Write("poller", r.count, PollerFailure(now)))
                      /\ timers' = timers
                 ELSE /\ requests' = requests \ {r}
                      /\ storageWrites' = Tail(storageWrites)
                      /\ timers' = PollPromiseFulfilled(r)
          ELSE /\ requests' = requests \ {r}
               /\ storageWrites' = Tail(storageWrites)
               /\ timers' = timers
  /\ UNCHANGED << storage, now, tryPollCount, settings, topChain, backgroundVars, addVars >>

\* a setTimeout callback runs
TimerFires ==
  \E t \in timers :
    /\ ~MicrotaskPending
    /\ timers' = timers \ {t}
    /\ IF ChainStillCurrent(t.count, tryPollCount)
         THEN /\ tryPollCount < MaxTryPolls
              /\ tryPoll(settings, t.chain, storageWrites)
         ELSE UNCHANGED << tryPollCount, requests, storageWrites >>
    /\ UNCHANGED << storage, now, settings, topChain, backgroundVars, addVars >>

(* ------------------------------------------------------------------ *)
(* addDownloadTaskAndPoll (single URL)                                  *)
(* ------------------------------------------------------------------ *)

\* A URL (or selected text) is told apart by what the program asks of it:
\* whether it has leading whitespace, its protocol, the extension its path
\* ends with and whether a query string follows.  The empty string has no
\* protocol.
Url(space, protocol, extension, query) ==
  [space |-> space, protocol |-> protocol, extension |-> extension, query |-> query]

EmptyUrl == Url(FALSE, "", "", FALSE)

\* the URLs a caller may pass
Urls ==
  { EmptyUrl,
    Url(FALSE, "gopher", "", FALSE),
    Url(FALSE, "http", "", FALSE),
    Url(FALSE, "http", ".torrent", TRUE),
    Url(FALSE, "magnet", "", FALSE) }

\* the texts a user may have selected when the context menu is clicked
SelectedTexts ==
  { Url(TRUE, "http", "", FALSE),
    Url(FALSE, "http", "", FALSE),
    Url(FALSE, "gopher", "", FALSE) }

\* String.prototype.trim
trim(text) == [text EXCEPT !.space = FALSE]

AUTO_DOWNLOAD_TORRENT_FILE_PROTOCOLS == {"http", "https", "ftp", "ftps"}
ALL_DOWNLOADABLE_PROTOCOLS == {"http", "https", "ftp", "ftps", "magnet"}

\* protocols.some(protocol => url.startsWith(`${protocol}://`))
startsWithAnyProtocol(url, protocols) == ~url.space /\ url.protocol \in protocols

\* url.indexOf('?') !== -1 ? url.slice(0, url.indexOf('?')) : url
urlWithoutQuery(url) == [url EXCEPT !.query = FALSE]

\* String.prototype.endsWith
endsWith(url, extension) == ~url.query /\ url.extension = extension

MetadataFileType(mediaType, extension) ==
  [mediaType |-> mediaType, extension |-> extension]

METADATA_FILE_TYPES ==
  << MetadataFileType("application/x-bittorrent", ".torrent"),
     MetadataFileType("application/x-nzb", ".nzb") >>

\* what find returns when no file type matches
NoFileType == MetadataFileType("undefined", "undefined")

ARBITRARY_FILE_FETCH_SIZE_CUTOFF == 1024 * 1024 * 5

\* +contentLength of a header that is missing or not a number
NaN == 0 - 1
isNaN(x) == x = NaN

\* String.prototype.toLowerCase, of the content types below
toLowerCase(s) ==
  IF s = "Application/X-BitTorrent" THEN "application/x-bittorrent" ELSE s

\* the headers of a HEAD response: content-type ("undefined": no such
\* header) and content-length as +contentLength reads it
HeadResponse(contentType, contentLength) ==
  [contentType |-> contentType, contentLength |-> contentLength]

NoHead == HeadResponse("none", NaN)
HeadRejected == HeadResponse("rejected", NaN)

HeadResponses ==
  { HeadResponse(ct, cl) :
      ct \in {"undefined", "Application/X-BitTorrent", "text/html"},
      cl \in {NaN, 1024, ARBITRARY_FILE_FETCH_SIZE_CUTOFF} }

\* what Axios.head settles with: a rejection or a response
HeadOutcomes == {HeadRejected} \cup HeadResponses

\* what Axios.get settles with
GetOutcomes == {"rejected", "response"}

\* find(METADATA_FILE_TYPES, fileType =>
\*   contentType === fileType.mediaType || urlWithoutQuery.endsWith(fileType.extension))
find(types, contentType, url) ==
  LET matching == { i \in 1..Len(types) :
                      contentType = types[i].mediaType \/ endsWith(url, types[i].extension) }
  IN IF matching = {}
       THEN NoFileType
       ELSE types[CHOOSE i \in matching : \A j \in matching : i <= j]

\* metadataFileType && !isNaN(+contentLength) && +contentLength < ARBITRARY_FILE_FETCH_SIZE_CUTOFF
shouldFetchFile(url, response) ==
  LET metadataFileType == find(METADATA_FILE_TYPES, toLowerCase(response.contentType),
                               urlWithoutQuery(url))
  IN /\ metadataFileType # NoFileType
     /\ ~isNaN(response.contentLength)
     /\ response.contentLength < ARBITRARY_FILE_FETCH_SIZE_CUTOFF

\* notify(title, message, type, id): the notifications of one call share its id
Notification(title, message, type) ==
  [title |-> title, message |-> message, type |-> type]
notify(log, title, message, type) == Append(log, Notification(title, message, type))

\* what Task.Create settles with
CreateOutcomes ==
  ConnectionFailures \cup {Outcome("response", TRUE, 0, <<>>)}
    \cup ErrorResponses \cup {Thrown}

\* doCreateTask has not been called
NoCall == [NewCall EXCEPT !.phase = "none", !.events = <<>>]

notifyTaskAddResult(log, result) ==
  IF isConnectionFailure(result)
    THEN notify(log, "Failed to connection to DiskStation",
                "Please check your settings.", "failure")
  ELSE IF result.success
    THEN notify(log, "Download added", "filename || url", "success")
  ELSE notify(log, "Failed to add download", errorMessageFromCode(result.code), "failure")

notifyUnexpectedError(log) ==
  notify(log, "Failed to add download",
         "Unexpected error; please check your settings and try again", "failure")

\* mutant: pollTasks without its catch handler, its promise rejects when the
\* poll threw
pollTasksPromiseRethrows(poll) ==
  IF poll.pc = "threw" THEN "rejected" ELSE "fulfilled"

\* how the promise pollTasks returned settles: its catch handler logs the
\* error and returns
pollTasksPromise(poll) == "fulfilled"

\* the synchronous part of addDownloadTaskAndPoll(api, url); by tells who
\* made the call and is set by the caller
addDownloadTaskAndPoll(url) ==
  LET add == [by |-> "message", url |-> url, pc |-> "start", head |-> NoHead,
              get |-> "none", call |-> NoCall, submitted |-> "none", poll |-> 0,
              notified |-> notify(<<>>, "Adding download...", url, "undefined")]
  IN IF url # EmptyUrl
       THEN IF startsWithAnyProtocol(url, AUTO_DOWNLOAD_TORRENT_FILE_PROTOCOLS)
              THEN [add EXCEPT !.pc = "head"]
            ELSE IF startsWithAnyProtocol(url, ALL_DOWNLOADABLE_PROTOCOLS)
              THEN [add EXCEPT !.pc = "create", !.call = NewCall, !.submitted = "uri"]
            ELSE [add EXCEPT !.pc = "done",
                             !.notified = notify(@, "Failed to add download",
                                                 "URL must start with one of", "failure")]
       ELSE [add EXCEPT !.pc = "done",
                        !.notified = notify(@, "Failed to add download",
                                            "No URL to download given", "failure")]

\* Axios.head(url).then(...).catch(notifyUnexpectedError), when the HEAD
\* request settles with h: a rejection, and the TypeError of
\* response.headers['content-type'].toLowerCase() when the header is
\* missing, go to the catch handler
headThen(add, h) ==
  IF h = HeadRejected \/ h.contentType = "undefined"
    THEN [add EXCEPT !.head = h, !.pc = "done",
                     !.notified = notifyUnexpectedError(@)]
  ELSE IF shouldFetchFile(add.url, h)
    THEN [add EXCEPT !.head = h, !.pc = "get"]
  ELSE [add EXCEPT !.head = h, !.pc = "create", !.call = NewCall, !.submitted = "uri"]

\* Axios.get(url).then(...), when the GET request settles with g
getThen(add, g) ==
  IF g = "rejected"
    THEN [add EXCEPT !.get = g, !.pc = "done",
                     !.notified = notifyUnexpectedError(@)]
    ELSE [add EXCEPT !.get = g, !.pc = "create", !.call = NewCall, !.submitted = "file"]

\* Once a call has ended nothing of the program refers to its requests any
\* more: the record keeps the notifications issued, what was submitted and
\* the result of doCreateTask, and drops the history of the call.
Ended(add) ==
  IF add.pc = "done"
    THEN [add EXCEPT !.call = [NoCall EXCEPT !.phase = add.call.phase,
                                             !.result = add.call.result]]
    ELSE add

\* When pollOnResponse is called the HEAD and GET responses are referred to
\* no more.
Polling(add) == [add EXCEPT !.head = NoHead, !.get = "none"]

\* what is kept of an earlier call when the next one is made: that it was made
PastCall ==
  [by |-> "message", url |-> EmptyUrl, pc |-> "past", head |-> NoHead,
   get |-> "none", call |-> NoCall, submitted |-> "none", poll |-> 0,
   notified |-> <<>>]

\* what is kept of an earlier call of addDownloadTasksAndPoll
PastBatch ==
  [urls |-> << >>, tasks |-> << >>, pc |-> "past", call |-> NoCall,
   file |-> << >>, uri |-> << >>, poll |-> 0, notified |-> << >>]

PastCalls(calls) == [a \in 1..Len(calls) |-> PastCall]
PastBatches(calls) == [b \in 1..Len(calls) |-> PastBatch]

\* a new call is made after the calls made so far
NextCall(calls, add) == Append(PastCalls(calls), add)

AddIds == { a \in 1..Len(adds) : adds[a].pc # "past" }
BatchIds == { b \in 1..Len(batches) : batches[b].pc # "past" }

\* the calls and context-menu clicks made so far
CallsMade == Len(adds) + Len(batches) + Len(menuNotified)

\* Calls are made one after another: a call is made when the promises of the
\* earlier ones have settled.
MayCall ==
  /\ CallsMade < MaxAdds
  /\ \A a \in AddIds : adds[a].pc = "done"
  /\ \A b \in BatchIds : batches[b].pc = "done"

\* the message listener calls addDownloadTaskAndPoll(api, message.url)
AddDownloadTaskAndPoll ==
  \E url \in Urls :
    /\ MayCall
    /\ adds' = NextCall(adds, Ended(addDownloadTaskAndPoll(url)))
    /\ batches' = PastBatches(batches)
    /\ UNCHANGED << storage, storageWrites, now, backgroundVars, pollerVars, menuNotified >>

\* what the context menu's onclick may be handed
MenuData ==
  { [kind |-> "link", text |-> u] : u \in Urls \ {EmptyUrl} }
    \cup { [kind |-> "src", text |-> Url(FALSE, "http", "", FALSE)] }
    \cup { [kind |-> "selection", text |-> t] : t \in SelectedTexts }
    \cup { [kind |-> "none", text |-> EmptyUrl] }

\* the text the handler passes to addDownloadTaskAndPoll for an accepted selection
selectionToAdd(selectionText) == selectionText

\* browser.contextMenus onclick
ContextMenuClick ==
  \E data \in MenuData :
    /\ MayCall
    /\ IF data.kind \in {"link", "src"}
         THEN /\ adds' = NextCall(adds, Ended([addDownloadTaskAndPoll(data.text)
                                                 EXCEPT !.by = data.kind]))
              /\ menuNotified' = menuNotified
       ELSE IF data.kind = "selection"
         THEN LET trimmedUrl == trim(data.text)
              IN IF startsWithAnyProtocol(trimmedUrl, ALL_DOWNLOADABLE_PROTOCOLS)
                   THEN /\ adds' = NextCall(adds,
                                     Ended([addDownloadTaskAndPoll(selectionToAdd(data.text))
                                              EXCEPT !.by = data.kind]))
                        /\ menuNotified' = menuNotified
                   ELSE /\ adds' = adds
                        /\ menuNotified' =
                             notify(menuNotified, "Failed_to_add_download",
                                    "Selected_text_is_not_a_valid_URL", "failure")
       ELSE /\ adds' = adds
            /\ menuNotified' =
                 notify(menuNotified, "Failed_to_add_download",
                        "URL_is_empty_or_missing", "failure")
    /\ batches' = IF adds' = adds THEN batches ELSE PastBatches(batches)
    /\ UNCHANGED << storage, storageWrites, now, backgroundVars, pollerVars >>

\* the HEAD request of a call settles
HeadSettles ==
  \E a \in AddIds, h \in HeadOutcomes :
    /\ adds[a].pc = "head"
    /\ adds' = [adds EXCEPT ![a] = Ended(headThen(@, h))]
    /\ UNCHANGED << storage, storageWrites, now, backgroundVars, pollerVars,
                    batches, menuNotified >>

\* the GET request of a call settles
GetSettles ==
  \E a \in AddIds, g \in GetOutcomes :
    /\ adds[a].pc = "get"
    /\ adds' = [adds EXCEPT ![a] = Ended(getThen(@, g))]
    /\ UNCHANGED << storage, storageWrites, now, backgroundVars, pollerVars,
                    batches, menuNotified >>

\* mutant: no result notification is issued and a rejected Task.Create is
\* followed by pollOnResponse as well
CreateSettlesUnnotified ==
  \E a \in AddIds, outcome \in CreateOutcomes :
    /\ adds[a].pc = "create"
    /\ CallInFlight(adds[a].call)
    /\ LET call == wrapInNoPermissionsRetry(adds[a].call, outcome)
       IN adds' = [adds EXCEPT ![a].call = call,
                               ![a].pc = IF CallInFlight(call) THEN "create" ELSE "notified"]
    /\ UNCHANGED << storage, storageWrites, now, backgroundVars, pollerVars,
                    batches, menuNotified >>

\* the remote Task.Create call of doCreateTask settles: the wrapper retries,
\* or its result goes to .then(notifyTaskAddResult), or its rejection goes
\* to .catch(notifyUnexpectedError)
CreateSettles ==
  \E a \in AddIds, outcome \in CreateOutcomes :
    /\ adds[a].pc = "create"
    /\ CallInFlight(adds[a].call)
    /\ LET call == wrapInNoPermissionsRetry(adds[a].call, outcome)
       IN IF call.phase = "returned"
            THEN adds' = [adds EXCEPT ![a].call = call,
                                      ![a].notified = notifyTaskAddResult(@, call.result),
                                      ![a].pc = "notified"]
          ELSE IF call.phase = "rejected"
            THEN adds' = [adds EXCEPT ![a] =
                            Ended([@ EXCEPT !.call = call,
                                            !.notified = notifyUnexpectedError(@),
                                            !.pc = "done"])]
          ELSE adds' = [adds EXCEPT ![a].call = call]
    /\ UNCHANGED << storage, storageWrites, now, backgroundVars, pollerVars,
                    batches, menuNotified >>

\* .then(pollOnResponse): pollTasks(api)
PollOnResponse ==
  \E a \in AddIds :
    /\ adds[a].pc = "notified"
    /\ LET r == pollTasks(polls, storageWrites, now, "add")
       IN /\ polls' = r[1]
          /\ storageWrites' = r[2]
    /\ adds' = [adds EXCEPT ![a] = Polling([@ EXCEPT !.pc = "polling",
                                                     !.poll = Len(polls) + 1])]
    /\ UNCHANGED << storage, now, stateChanged, reactorVars, pollerVars,
                    batches, menuNotified >>

\* the promise of pollOnResponse settles: a rejection would go to
\* .catch(notifyUnexpectedError)
PollOnResponseSettles ==
  \E a \in AddIds :
    /\ adds[a].pc = "polling"
    /\ ~PollInFlight(polls[adds[a].poll])
    /\ adds' = [adds EXCEPT ![a] =
                  Ended([@ EXCEPT !.pc = "done",
                                  !.notified =
                                     IF pollTasksPromise(polls[adds[a].poll]) = "rejected"
                                       THEN notifyUnexpectedError(@) ELSE @])]
    /\ UNCHANGED << storage, storageWrites, now, backgroundVars, pollerVars,
                    batches, menuNotified >>

(* ------------------------------------------------------------------ *)
(* addDownloadTasksAndPoll (URL list)                                   *)
(* ------------------------------------------------------------------ *)

TASKS_AUTO_DOWNLOAD_TORRENT_FILE_PROTOCOLS == {"http", "https"}

DOWNLOADABLE_PROTOCOLS ==
  {"http", "https", "ftp", "ftps", "magnet", "thunder", "flashget", "qqdl"}

\* the URL lists a caller may pass
UrlLists ==
  { << >>,
    << Url(FALSE, "gopher", "", FALSE) >>,
    << Url(FALSE, "http", "", FALSE) >>,
    << Url(FALSE, "http", ".torrent", TRUE), Url(FALSE, "magnet", "", FALSE) >>,
    << Url(FALSE, "gopher", "", FALSE), Url(FALSE, "http", "", FALSE) >> }

\* the promise of one URL of the list: waiting for its HEAD or GET response
\* ("head", "get"), resolved with a FormFile or with the URL ("file",
\* "uri"), or rejected
TaskPromise(url, pc) == [url |-> url, pc |-> pc]

\* mutant: every URL is passed on
rejectUnknownUrlsPassesAll(task) == task

\* rejectUnknownUrls(taskPromise), once taskPromise has settled
rejectUnknownUrls(task) ==
  IF task.pc = "uri" /\ ~startsWithAnyProtocol(task.url, DOWNLOADABLE_PROTOCOLS)
    THEN [task EXCEPT !.pc = "rejected"]
    ELSE task

\* rejectUnknownUrls(maybeMapUrlToFile(url)), up to the HEAD request
maybeMapUrlToFile(url) ==
  IF startsWithAnyProtocol(url, TASKS_AUTO_DOWNLOAD_TORRENT_FILE_PROTOCOLS)
    THEN TaskPromise(url, "head")
    ELSE rejectUnknownUrls(TaskPromise(url, "uri"))

\* Axios.head(url).then(...) of maybeMapUrlToFile, when the HEAD request
\* settles with h
mapHeadThen(task, h) ==
  IF h = HeadRejected \/ h.contentType = "undefined"
    THEN [task EXCEPT !.pc = "rejected"]
  ELSE IF shouldFetchFile(task.url, h)
    THEN [task EXCEPT !.pc = "get"]
  ELSE rejectUnknownUrls([task EXCEPT !.pc = "uri"])

\* Axios.get(url).then(...) of maybeMapUrlToFile, when the GET request settles with g
mapGetThen(task, g) ==
  IF g = "rejected"
    THEN [task EXCEPT !.pc = "rejected"]
    ELSE rejectUnknownUrls([task EXCEPT !.pc = "file"])

UrlsOf(tasks, pc) ==
  LET chosen == SelectSeq(tasks, LAMBDA t : t.pc = pc)
  IN [i \in 1..Len(chosen) |-> chosen[i].url]

\* partitionPromises(...).then(({ resolved, rejected }) => ...), run once
\* every promise of the list has settled
partitionThen(batch) ==
  IF batch.pc = "mapping"
       /\ \A i \in 1..Len(batch.tasks) : batch.tasks[i].pc \in {"file", "uri", "rejected"}
    THEN LET file == UrlsOf(batch.tasks, "file")
             uri == UrlsOf(batch.tasks, "uri")
         IN IF Len(file) + Len(uri) = 0
              THEN [batch EXCEPT !.pc = "done"]
              ELSE [batch EXCEPT !.pc = "create", !.call = NewCall,
                                 !.file = file, !.uri = uri]
    ELSE batch

\* the synchronous part of addDownloadTasksAndPoll(api, urls)
addDownloadTasksAndPoll(urls) ==
  LET batch == [urls |-> urls, tasks |-> << >>, pc |-> "start", call |-> NoCall,
                file |-> << >>, uri |-> << >>, poll |-> 0, notified |-> << >>]
  IN IF Len(urls) > 0
       THEN partitionThen(
              [batch EXCEPT
                 !.pc = "mapping",
                 !.tasks = [i \in 1..Len(urls) |-> maybeMapUrlToFile(urls[i])],
                 !.notified =
                    IF Len(urls) = 1
                      THEN notify(@, "Adding download...", "urls[0]", "undefined")
                      ELSE notify(@, "Adding " \o ToString(Len(urls)) \o " downloads...",
                                  "undefined", "undefined")])
       ELSE [batch EXCEPT !.pc = "done",
                          !.notified = notify(@, "Failed to add download",
                                              "No URL to download given", "undefined")]

\* notifyUnexpectedError of addDownloadTasksAndPoll
notifyUnexpectedErrorTasks(log) ==
  notify(log, "Failed to add download",
         "Unexpected error; please check your settings and try again", "undefined")

\* Once a call has ended nothing of the program refers to its requests any more.
EndedBatch(batch) ==
  IF batch.pc = "done"
    THEN [batch EXCEPT !.call = [NoCall EXCEPT !.phase = batch.call.phase,
                                               !.result = batch.call.result]]
    ELSE batch

\* a caller calls addDownloadTasksAndPoll(api, urls)
AddDownloadTasksAndPoll ==
  \E urls \in UrlLists :
    /\ MayCall
    /\ batches' = Append(PastBatches(batches), EndedBatch(addDownloadTasksAndPoll(urls)))
    /\ adds' = PastCalls(adds)
    /\ UNCHANGED << storage, storageWrites, now, backgroundVars, pollerVars, menuNotified >>

\* the HEAD request of one URL of a list settles
TasksHeadSettles ==
  \E b \in BatchIds, h \in HeadOutcomes :
    \E i \in 1..Len(batches[b].tasks) :
      /\ batches[b].tasks[i].pc = "head"
      /\ batches' = [batches EXCEPT ![b] =
                       EndedBatch(partitionThen([@ EXCEPT !.tasks[i] = mapHeadThen(@, h)]))]
      /\ UNCHANGED << storage, storageWrites, now, backgroundVars, pollerVars,
                      adds, menuNotified >>

\* the GET request of one URL of a list settles
TasksGetSettles ==
  \E b \in BatchIds, g \in GetOutcomes :
    \E i \in 1..Len(batches[b].tasks) :
      /\ batches[b].tasks[i].pc = "get"
      /\ batches' = [batches EXCEPT ![b] =
                       EndedBatch(partitionThen([@ EXCEPT !.tasks[i] = mapGetThen(@, g)]))]
      /\ UNCHANGED << storage, storageWrites, now, backgroundVars, pollerVars,
                      adds, menuNotified >>

\* the remote Task.Create call of a list settles: the wrapper retries, or its
\* result goes to .then(pollOnResponse), or its rejection goes to
\* .catch(notifyUnexpectedError)
TasksCreateSettles ==
  \E b \in BatchIds, outcome \in CreateOutcomes :
    /\ batches[b].pc = "create"
    /\ CallInFlight(batches[b].call)
    /\ LET call == wrapInNoPermissionsRetry(batches[b].call, outcome)
           r == pollTasks(polls, storageWrites, now, "addTasks")
       IN IF call.phase = "returned"
            THEN /\ batches' = [batches EXCEPT ![b].call = call,
                                               ![b].pc = "polling",
                                               ![b].poll = Len(polls) + 1]
                 /\ polls' = r[1]
                 /\ storageWrites' = r[2]
          ELSE IF call.phase = "rejected"
            THEN /\ batches' = [batches EXCEPT ![b] =
                                  EndedBatch([@ EXCEPT !.call = call,
                                                       !.notified = notifyUnexpectedErrorTasks(@),
                                                       !.pc = "done"])]
                 /\ UNCHANGED << polls, storageWrites >>
          ELSE /\ batches' = [batches EXCEPT ![b].call = call]
               /\ UNCHANGED << polls, storageWrites >>
    /\ UNCHANGED << storage, now, stateChanged, reactorVars, pollerVars, adds, menuNotified >>

\* the promise of pollOnResponse of a list settles
TasksPollSettles ==
  \E b \in BatchIds :
    /\ batches[b].pc = "polling"
    /\ ~PollInFlight(polls[batches[b].poll])
    /\ batches' = [batches EXCEPT ![b] =
                     EndedBatch([@ EXCEPT !.pc = "done",
                                          !.notified =
                                             IF pollTasksPromise(polls[batches[b].poll]) = "rejected"
                                               THEN notifyUnexpectedErrorTasks(@) ELSE @])]
    /\ UNCHANGED << storage, storageWrites, now, backgroundVars, pollerVars,
                    adds, menuNotified >>

\* no addDownloadTaskAndPoll call has been made
AddInit ==
  /\ adds = <<>>
  /\ batches = <<>>
  /\ menuNotified = <<>>

\* the TaskPoller as constructed with no settings
PollerInit ==
  /\ tryPollCount = 0
  /\ settings = DEFAULT_SETTINGS
  /\ requests = {}
  /\ timers = {}
  /\ topChain = 0

\* the background script as loaded, before the first stored state is delivered
ReactorInit ==
  /\ stateChanged = TRUE
  /\ apiSettings = "unset"
  /\ notificationSettings = DEFAULT_NOTIFICATIONS
  /\ notificationInterval = 0
  /\ intervals = {}
  /\ browserAction = BrowserAction("icon", "", "default")
  /\ finishedTaskIds = Undefined
  /\ finishedNotified = << >>

Init ==
  /\ storage \in { [emptyState EXCEPT !.tasks = ts] : ts \in TaskLists \cup {<<>>} }
  /\ storageWrites = <<>>
  /\ polls = <<>>
  /\ now = START_TIME
  /\ ReactorInit
  /\ PollerInit
  /\ AddInit

Next ==
  \/ PollTasks
  \/ TaskListSettles
  \/ StorageSetFulfilled
  \/ StorageSetRejected
  \/ Tick

Spec == Init /\ [][Next]_vars

\* the cached tasks with the stored settings
StoredState(connection, notifications) ==
  [tasks |-> emptyState.tasks,
   taskFetchFailureReason |-> emptyState.taskFetchFailureReason,
   tasksLastCompletedFetchTimestamp |-> emptyState.tasksLastCompletedFetchTimestamp,
   tasksLastInitiatedFetchTimestamp |-> emptyState.tasksLastInitiatedFetchTimestamp,
   connection |-> connection,
   notifications |-> notifications]

BackgroundInit ==
  /\ storage \in { StoredState("nas1", n) : n \in NotificationChoices }
  /\ storageWrites = <<>>
  /\ polls = <<>>
  /\ now = START_TIME
  /\ ReactorInit
  /\ PollerInit
  /\ AddInit

BackgroundNext ==
  \/ StoredStateChange
  \/ ChangeConnection
  \/ ChangeNotifications
  \/ IntervalFires
  \/ TaskListSettles
  \/ StorageSetFulfilled
  \/ StorageSetRejected
  \/ Tick

SpecBackground == BackgroundInit /\ [][BackgroundNext]_vars

\* the background script while the connection settings are changed
ReconnectNext ==
  \/ StoredStateChange
  \/ ChangeConnectionAgain
  \/ TaskListSettles
  \/ StorageSetFulfilled
  \/ StorageSetRejected
  \/ Tick

SpecReconnect == BackgroundInit /\ [][ReconnectNext]_vars

\* the task lists the polls of the other pages of the extension may store
FinishedTaskLists ==
  TaskLists \cup { << Task(1, "seeding"), Task(2, "finished") >> }

\* what the Task.List call of such a poll returns
StoredOutcomes ==
  ConnectionFailures \cup ErrorResponses
    \cup { Outcome("response", TRUE, 0, ts) : ts \in FinishedTaskLists }

\* a pollTasks call of another page of the extension (popup, settings page)
\* completes: the background script sees what it stored
PollStores ==
  \E response \in StoredOutcomes :
    /\ storage' = StorageSet(StorageSet(storage, cachedTasksInit(now)),
                             setCachedTasksResponse(response, now))
    /\ stateChanged' = TRUE
    /\ UNCHANGED << storageWrites, polls, now, reactorVars, pollerVars, addVars >>

\* the background script with the polls of the other pages: the connection
\* settings stay as they are
FinishedNext ==
  \/ StoredStateChange
  \/ ChangeNotifications
  \/ PollStores
  \/ TaskListSettles
  \/ StorageSetFulfilled
  \/ StorageSetRejected
  \/ Tick

SpecFinished == BackgroundInit /\ [][FinishedNext]_vars

PollerSpecInit ==
  /\ storage = PollerCache
  /\ storageWrites = <<>>
  /\ polls = <<>>
  /\ now = START_TIME
  /\ ReactorInit
  /\ PollerInit
  /\ AddInit

PollerNext ==
  \/ UpdateSettings
  \/ MissingThen
  \/ PollerListSettles
  \/ PollerStorageSetFulfilled
  \/ PollerStorageSetRejected
  \/ TimerFires
  \/ Tick

SpecPoller == PollerSpecInit /\ [][PollerNext]_vars

AddNext ==
  \/ AddDownloadTaskAndPoll
  \/ ContextMenuClick
  \/ HeadSettles
  \/ GetSettles
  \/ CreateSettles
  \/ PollOnResponse
  \/ PollOnResponseSettles
  \/ AddDownloadTasksAndPoll
  \/ TasksHeadSettles
  \/ TasksGetSettles
  \/ TasksCreateSettles
  \/ TasksPollSettles
  \/ TaskListSettles
  \/ StorageSetFulfilled
  \/ StorageSetRejected

AddSpecInit ==
  /\ storage = emptyState
  /\ storageWrites = <<>>
  /\ polls = <<>>
  /\ now = START_TIME
  /\ ReactorInit
  /\ PollerInit
  /\ AddInit

SpecAdd == AddSpecInit /\ [][AddNext]_vars

(* ------------------------------------------------------------------ *)
(* Claims                                                               *)
(* ------------------------------------------------------------------ *)

IsNoPermissionsError(result) ==
  result.type = "response" /\ ~result.success /\ result.code = 105

IsFailure(result) ==
  result.type \in {"missing-config", "timeout"}
    \/ (result.type = "response" /\ ~result.success)

PollIds == 1..Len(polls)

\* poll p completes in this step through its .then handler: its final write
\* is fulfilled
Completes(p) == polls[p].pc = "writing" /\ polls'[p].pc = "done"

\* C1: a call of a wrapped function issues the remote call at most twice; the
\* second call is issued exactly when the first result is no connection
\* failure, is unsuccessful and has error code 105; what the second call
\* returns is the result of the wrapper, unchanged.
C1_RetryOnceOnNoPermissions ==
  \A p \in PollIds :
    LET c == polls[p].call
        n == Count(c.events, "call")
    IN /\ n <= 2
       /\ (n = 2) <=> IsNoPermissionsError(c.first)
       /\ (c.phase = "returned" /\ n = 2) => c.result = c.second
       /\ (c.phase = "returned" /\ n = 1) => c.result = c.first

\* C1 witness: a retried call has returned, and its second result is error 105 again
C1_Witness ==
  \E p \in PollIds :
    /\ polls[p].call.phase = "returned"
    /\ Count(polls[p].call.events, "call") = 2
    /\ IsNoPermissionsError(polls[p].call.second)
    /\ IsNoPermissionsError(polls[p].call.result)

\* C2: when a poll completes with a successful Task.List response, the cache
\* holds exactly the tasks of that response and no failure reason.
C2_SuccessOverwritesCache ==
  [][\A p \in PollIds :
       (Completes(p) /\ polls[p].call.result.success)
         => /\ storage'.tasks = polls[p].call.result.tasks
            /\ storage'.taskFetchFailureReason = NullReason]_vars

\* C2 witness: two polls have completed, the later one with a successful
\* response, and the cache holds its task list and no failure reason
C2_Witness ==
  /\ Len(polls) = 2
  /\ \A p \in PollIds : polls[p].pc = "done"
  /\ polls[2].call.result.success
  /\ storage.tasks = polls[2].call.result.tasks
  /\ storage.tasks # <<>>
  /\ storage.taskFetchFailureReason = NullReason

\* C3: when a poll completes with a connection failure or an unsuccessful
\* response, it stores a failure reason ('missing-config' for that connection
\* failure, a failure message otherwise) and a completed-fetch timestamp, and
\* the cached task list stays as it was.
C3_FailureKeepsTasks ==
  [][\A p \in PollIds :
       (Completes(p) /\ IsFailure(polls[p].call.result))
         => /\ storage'.taskFetchFailureReason.kind =
                 (IF polls[p].call.result.type = "missing-config"
                    THEN "missing-config" ELSE "failureMessage")
            /\ storage'.tasksLastCompletedFetchTimestamp \in START_TIME..now
            /\ storage'.tasks = storage.tasks]_vars

\* C3 witness: a poll has completed with a failure, the reason is stored and
\* the cache still holds a non-empty task list
C3_Witness ==
  \E p \in PollIds :
    /\ polls[p].pc = "done"
    /\ IsFailure(polls[p].call.result)
    /\ storage.taskFetchFailureReason.kind \in {"missing-config", "failureMessage"}
    /\ storage.tasksLastCompletedFetchTimestamp # NullTimestamp
    /\ storage.tasks # <<>>

\* C4: once no poll is in flight, the cached tasks and failure reason are the
\* ones produced by the most recently initiated poll.
C4_NewestPollWins ==
  LET newest == polls[Len(polls)]
      produced == setCachedTasksResponse(newest.call.result, now)
  IN (/\ polls # <<>>
      /\ storageWrites = <<>>
      /\ \A p \in PollIds : ~PollInFlight(polls[p])
      /\ newest.pc = "done")
       => /\ storage.taskFetchFailureReason = produced.taskFetchFailureReason
          /\ newest.call.result.success => storage.tasks = newest.call.result.tasks

LiveRequests == { r \in requests : r.count = tryPollCount }
LiveTimers == { t \in timers : t.count = tryPollCount }

\* C5: at most one polling chain of the TaskPoller is live: the only request
\* or timer that can still lead to a tryPoll call (its count is the current
\* tryPollCount) belongs to the chain begun by the latest updateSettings
\* tryPoll; requests and timers of earlier chains never call tryPoll again.
C5_OneLiveChain ==
  /\ Cardinality(LiveRequests) + Cardinality(LiveTimers) <= 1
  /\ \A r \in LiveRequests : r.chain = topChain
  /\ \A t \in LiveTimers : t.chain = topChain

\* C5 witness: a timer of an earlier chain is still scheduled while the chain
\* begun by a later updateSettings has its own timer scheduled
C5_Witness ==
  /\ \E t \in timers : t.chain < topChain /\ t.count < tryPollCount
  /\ \E t \in timers : t.chain = topChain /\ t.count = tryPollCount

\* C6: while the TaskPoller is enabled with a hostname and a sid, polling
\* never stops: there is always a Task.List request or storage write in
\* flight, or an interval timer scheduled, that leads to the next tryPoll.
C6_PollingNeverStops ==
  (settings.enabled /\ settings.hostname # "" /\ settings.sid # "undefined")
    => (LiveRequests # {} \/ LiveTimers # {})

\* the oldest pending write is a clearCachedTasks() write and settles in this step
ClearSettles ==
  /\ storageWrites # <<>>
  /\ Head(storageWrites).kind = "clear"
  /\ storageWrites' # storageWrites
  /\ Len(storageWrites') <= Len(storageWrites)

\* C7: every clearCachedTasks() call the reactor makes for changed connection
\* settings clears the cache and is followed by exactly one poll of the
\* reactor, started when the clearing write has settled: in the step in which
\* the write settles the cache is the empty state and one poll is started,
\* whose first storage write is issued then; the reactor starts no poll in
\* any other step.
C7_ClearThenOnePoll ==
  [][/\ ClearSettles =>
          /\ Len(polls') = Len(polls) + 1
          /\ polls'[Len(polls')].by = "reactor"
          /\ storage'.tasks = <<>>
          /\ storage'.taskFetchFailureReason = NullReason
          /\ storageWrites'[Len(storageWrites')].poll = Len(polls')
     /\ (Len(polls') > Len(polls) /\ polls'[Len(polls')].by = "reactor")
          => ClearSettles]_vars

C9_IconAndBadgeFollowState ==
  ~stateChanged =>
    IF storage.taskFetchFailureReason # NullReason
      THEN /\ browserAction.icon = "icon-disabled"
           /\ browserAction.badgeText = ""
           /\ browserAction.badgeColor = "red"
      ELSE /\ browserAction.icon = "icon"
           /\ browserAction.badgeColor = "green"
           /\ Len(storage.tasks) = 0 => browserAction.badgeText = ""
           /\ Len(storage.tasks) = 1 => browserAction.badgeText = "1"
           /\ Len(storage.tasks) = 2 => browserAction.badgeText = "2"

\* C9 witness: a poll has stored two tasks and the badge shows their number
C9_Witness ==
  /\ ~stateChanged
  /\ storage.taskFetchFailureReason = NullReason
  /\ Len(storage.tasks) = 2
  /\ browserAction = BrowserAction("icon", "2", "green")
  /\ \E p \in PollIds : polls[p].pc = "done" /\ polls[p].call.result.success

\* C10: every addDownloadTaskAndPoll call first issues 'Adding download...';
\* once all its requests have settled it has issued exactly one more
\* notification, the result: 'Download added' exactly when Task.Create
\* succeeded, a failure notification on every other path (empty URL,
\* unsupported protocol, HEAD or GET failure, connection failure, error
\* response, rejected Task.Create).
C10_OneResultNotification ==
  \A a \in AddIds :
    LET add == adds[a]
        n == add.notified
        created == add.call.phase = "returned" /\ add.call.result.success
    IN /\ n[1] = Notification("Adding download...", add.url, "undefined")
       /\ Len(n) <= 2
       /\ add.pc = "done" =>
            /\ Len(n) = 2
            /\ n[2].type = (IF created THEN "success" ELSE "failure")
            /\ created <=> n[2].title = "Download added"
            /\ (add.call.phase = "returned" /\ isConnectionFailure(add.call.result))
                 <=> n[2].title = "Failed to connection to DiskStation"

\* C10 witness: a call for an http URL has created the task, notified
\* 'Download added' and ended after its poll threw
C10_Witness ==
  \E a \in AddIds :
    /\ adds[a].pc = "done"
    /\ adds[a].url.protocol = "http"
    /\ adds[a].call.result.success
    /\ polls[adds[a].poll].pc = "threw"
    /\ Len(adds[a].notified) = 2
    /\ adds[a].notified[2].title = "Download added"

\* C11: a call of addDownloadTasksAndPoll with a non-empty list whose requests
\* have all settled has issued, after its 'Adding ...' notification, a final
\* notification that reports the success or failure of the submission
C11_FinalNotification ==
  \A b \in BatchIds :
    (batches[b].pc = "done" /\ Len(batches[b].urls) > 0)
      => /\ Len(batches[b].notified) >= 2
         /\ batches[b].notified[Len(batches[b].notified)].title
              \in {"Download added", "Failed to add download",
                   "Failed to connection to DiskStation",
                   ToString(Len(batches[b].urls)) \o " downloads added"}

\* C12: Task.Create is never called with a URL that does not start with a
\* downloadable protocol. addDownloadTaskAndPoll answers such a URL, and an
\* empty one, with a failure notification and issues no HTTP request, no
\* Task.Create and no poll; addDownloadTasksAndPoll leaves such a URL out of
\* the uri list it sends to Task.Create.
C12_OnlyDownloadableUrlsSubmitted ==
  /\ \A a \in AddIds :
        IF startsWithAnyProtocol(adds[a].url, ALL_DOWNLOADABLE_PROTOCOLS)
          THEN TRUE
          ELSE /\ adds[a].pc = "done"
               /\ adds[a].head = NoHead
               /\ adds[a].get = "none"
               /\ adds[a].call = NoCall
               /\ adds[a].submitted = "none"
               /\ adds[a].poll = 0
               /\ Len(adds[a].notified) = 2
               /\ adds[a].notified[2].type = "failure"
  /\ \A b \in BatchIds :
        /\ \A i \in 1..Len(batches[b].uri) :
              batches[b].uri[i].protocol \in DOWNLOADABLE_PROTOCOLS
        /\ \A i \in 1..Len(batches[b].file) :
              batches[b].file[i].protocol \in DOWNLOADABLE_PROTOCOLS
        /\ batches[b].call.phase # "none"
              => /\ Len(batches[b].file) + Len(batches[b].uri) > 0
                 /\ \A i \in 1..Len(batches[b].tasks) :
                       batches[b].tasks[i].url.protocol \notin DOWNLOADABLE_PROTOCOLS
                         => batches[b].tasks[i].pc = "rejected"

\* C12 witness: Task.Create has returned for a list of a gopher URL and an
\* http URL, and the uri list sent held the http URL only
C12_Witness ==
  \E b \in BatchIds :
    /\ Len(batches[b].urls) = 2
    /\ batches[b].urls[1].protocol = "gopher"
    /\ batches[b].call.phase = "returned"
    /\ batches[b].file = << >>
    /\ batches[b].uri = << batches[b].urls[2] >>

\* C13: when the HEAD request of an auto-download URL has succeeded, the
\* content is fetched and submitted as a file exactly when the content type
\* is a metadata media type or the URL without its query ends with the
\* matching extension, and the content length is a number below 5 MiB;
\* otherwise no GET is issued and the URL is submitted as a uri
C13_FileIffSmallMetadata ==
  \A a \in AddIds :
    (adds[a].head \notin {NoHead, HeadRejected})
      => LET h == adds[a].head
             isMetadata ==
               \E i \in 1..Len(METADATA_FILE_TYPES) :
                 \/ toLowerCase(h.contentType) = METADATA_FILE_TYPES[i].mediaType
                 \/ endsWith(urlWithoutQuery(adds[a].url), METADATA_FILE_TYPES[i].extension)
             isSmall ==
               ~isNaN(h.contentLength) /\ h.contentLength < 5 * 1024 * 1024
         IN IF isMetadata /\ isSmall
              THEN adds[a].pc = "get" \/ adds[a].submitted = "file"
              ELSE adds[a].get = "none" /\ adds[a].submitted = "uri"

\* C14: in addDownloadTaskAndPoll the poll follows the result notification,
\* which follows the response of Task.Create: a poll is started by a call
\* only when its Task.Create has returned and its result notification has
\* been issued, a step starts at most one such poll, a call that has started
\* its poll starts no other, a call that ended after Task.Create returned has
\* started its poll, and a call that never reached Task.Create or whose
\* Task.Create was rejected starts none
C14_CreateThenNotifyThenPoll ==
  /\ [](\A a \in AddIds :
          /\ adds[a].poll # 0
                => /\ adds[a].call.phase = "returned"
                   /\ Len(adds[a].notified) = 2
                   /\ adds[a].pc \in {"polling", "done"}
                   /\ adds[a].poll \in 1..Len(polls)
                   /\ polls[adds[a].poll].by = "add"
          /\ (adds[a].call.phase \in {"none", "rejected"}) => adds[a].poll = 0
          /\ (adds[a].pc = "done" /\ adds[a].call.phase = "returned")
                => adds[a].poll # 0)
  /\ [][
        /\ \A a \in AddIds :
             (a \in 1..Len(adds') /\ adds[a].poll # 0 /\ adds'[a].pc # "past")
               => adds'[a].poll = adds[a].poll
        /\ (Len(polls') > Len(polls) /\ polls'[Len(polls')].by = "add")
              => /\ Len(polls') = Len(polls) + 1
                 /\ \E a \in AddIds :
                       /\ adds[a].pc = "notified"
                       /\ adds[a].poll = 0
                       /\ adds'[a].pc = "polling"
                       /\ adds'[a].poll = Len(polls')
                       /\ \A o \in AddIds \ {a} : adds'[o] = adds[o]
     ]_vars

\* C14 witness: Task.Create answered a call with an error response, the call
\* notified the failure, then started its poll, and the poll has ended
C14_Witness ==
  \E a \in AddIds :
    /\ adds[a].pc = "done"
    /\ adds[a].call.phase = "returned"
    /\ ~isConnectionFailure(adds[a].call.result)
    /\ ~adds[a].call.result.success
    /\ Len(adds[a].notified) = 2
    /\ adds[a].notified[2].title = "Failed to add download"
    /\ adds[a].poll # 0
    /\ polls[adds[a].poll].pc = "done"

\* C17: a selected text the context-menu handler accepts is passed to
\* addDownloadTaskAndPoll as a string that starts with a downloadable
\* protocol, so the call never answers it with 'URL must start with one of'
C17_AcceptedSelectionIsSubmittable ==
  \A a \in AddIds :
    adds[a].by = "selection"
      => /\ startsWithAnyProtocol(adds[a].url, ALL_DOWNLOADABLE_PROTOCOLS)
         /\ \A n \in 2..Len(adds[a].notified) :
               adds[a].notified[n].message # "URL must start with one of"

\* C15: a call of a wrapped function that retries issues api.Auth.Logout()
\* exactly once, after the first call and before the second; a call whose
\* first result is a success, a connection failure or an error other than
\* 105 issues neither Logout nor a second call
C15_LogoutOnceBeforeRetry ==
  \A p \in PollIds :
    LET c == polls[p].call
    IN IF c.events = << >>
         THEN IsSettled(polls[p])
       ELSE IF IsNoPermissionsError(c.first)
         THEN c.events = << "call", "logout", "call" >>
       ELSE c.events = << "call" >>

\* C15 witness: the first Task.List call of a poll returned error 105, Logout
\* and the second call were issued in that order, and the second call has
\* returned a task list
C15_Witness ==
  \E p \in PollIds :
    /\ polls[p].call.phase = "returned"
    /\ polls[p].call.first = Outcome("response", FALSE, 105, << >>)
    /\ polls[p].call.events = << "call", "logout", "call" >>
    /\ polls[p].call.result.success

\* C16: the promise of pollTasks never rejects, and a poll whose Task.List
\* call or storage write threw writes none of tasks, taskFetchFailureReason
\* and tasksLastCompletedFetchTimestamp: these keys change only when the
\* final write of a poll that did not throw is fulfilled, and a poll that
\* threw has no final write pending
C16_ThrowingPollWritesNothing ==
  /\ [](\A p \in PollIds :
          /\ pollTasksPromise(polls[p]) = "fulfilled"
          /\ polls[p].pc = "threw"
                => \A w \in 1..Len(storageWrites) :
                     ~(storageWrites[w].kind = "final" /\ storageWrites[w].poll = p))
  /\ [][
        (\/ storage'.tasks # storage.tasks
         \/ storage'.taskFetchFailureReason # storage.taskFetchFailureReason
         \/ storage'.tasksLastCompletedFetchTimestamp # storage.tasksLastCompletedFetchTimestamp)
          => /\ storageWrites # << >>
             /\ Head(storageWrites).kind = "final"
             /\ polls[Head(storageWrites).poll].pc = "writing"
             /\ polls'[Head(storageWrites).poll].pc = "done"
     ]_vars

\* C16 witness: Task.List threw after the write of the initiated timestamp
\* was stored; the poll has ended, the timestamp of its start is in the cache
\* and no completed timestamp is
C16_Witness ==
  \E p \in PollIds :
    /\ polls[p].pc = "threw"
    /\ polls[p].initWrite = "ok"
    /\ polls[p].call.phase = "rejected"
    /\ storageWrites = << >>
    /\ storage.tasksLastInitiatedFetchTimestamp # NullTimestamp
    /\ storage.tasksLastCompletedFetchTimestamp = NullTimestamp

NoDuplicates(ids) == \A i, j \in 1..Len(ids) : ids[i] = ids[j] => i = j

IsPrefix(a, b) == Len(a) <= Len(b) /\ \A i \in 1..Len(a) : a[i] = b[i]

\* C18: 'Download finished' is notified at most once for a task id;
\* finishedTaskIds only grows and holds no id twice, and an id that is in it
\* is never notified again
C18_FinishedNotifiedOnce ==
  /\ [](NoDuplicates(finishedNotified) /\ NoDuplicates(finishedTaskIds.ids))
  /\ [][
        /\ finishedTaskIds.defined => finishedTaskIds'.defined
        /\ IsPrefix(finishedTaskIds.ids, finishedTaskIds'.ids)
        /\ IsPrefix(finishedNotified, finishedNotified')
        /\ \A n \in (Len(finishedNotified) + 1)..Len(finishedNotified') :
              /\ indexOf(finishedTaskIds.ids, finishedNotified'[n]) = 0 - 1
              /\ indexOf(finishedTaskIds'.ids, finishedNotified'[n]) # 0 - 1
     ]_vars

\* C18 witness: task 1 was in finishedTaskIds already when the snapshot with
\* task 1 seeding and task 2 finished was delivered: task 2 was notified and
\* added, task 1 was not notified
C18_Witness ==
  /\ finishedTaskIds = TaskIds(<< 1, 2 >>)
  /\ finishedNotified = << 2 >>
  /\ ~stateChanged
  /\ storage.tasks = << Task(1, "seeding"), Task(2, "finished") >>
  /\ isCompletedSinceStart(storage)
  /\ storage.notifications.enabled

\* C19: the first snapshot delivered with a completed timestamp later than
\* START_TIME and no failure reason only sets the baseline: finishedTaskIds
\* becomes the finished ids of that snapshot and nothing is notified.  A
\* 'Download finished' notification is issued only on the delivery of a later
\* such snapshot, and only while the stored notifications are enabled; a
\* snapshot with a failure reason or an older timestamp changes neither
\* finishedTaskIds nor the notifications.
C19_BaselineThenNotify ==
  /\ [](~finishedTaskIds.defined => finishedNotified = << >>)
  /\ [][
        /\ (finishedNotified' # finishedNotified)
              => /\ finishedTaskIds.defined
                 /\ storage.notifications.enabled
        /\ (finishedNotified' # finishedNotified \/ finishedTaskIds' # finishedTaskIds)
              => /\ stateChanged /\ ~stateChanged'
                 /\ storage.tasksLastCompletedFetchTimestamp # NullTimestamp
                 /\ storage.tasksLastCompletedFetchTimestamp > START_TIME
                 /\ storage.taskFetchFailureReason = NullReason
        /\ (~finishedTaskIds.defined /\ finishedTaskIds'.defined)
              => /\ finishedNotified' = finishedNotified
                 /\ finishedTaskIds'.ids = updatedFinishedTaskIds(storage.tasks)
     ]_vars

\* C19 witness: with notifications enabled, the snapshot with task 1 finished
\* has been delivered and has set finishedTaskIds, and nothing was notified
C19_Witness ==
  /\ finishedTaskIds = TaskIds(<< 1 >>)
  /\ finishedNotified = << >>
  /\ ~stateChanged
  /\ storage.tasks = << Task(1, "finished"), Task(2, "downloading") >>
  /\ storage.tasksLastCompletedFetchTimestamp > START_TIME
  /\ storage.taskFetchFailureReason = NullReason
  /\ storage.notifications.enabled
  /\ notificationSettings.enabled

\* C20: once the connection settings have been changed, the change has been
\* delivered and every poll and storage write has completed, the cache holds
\* no task list that was fetched with other settings than the stored ones
C20_NoTasksOfPreviousSettings ==
  (/\ ~stateChanged
   /\ apiSettings = storage.connection
   /\ storageWrites = << >>
   /\ \A p \in PollIds : ~PollInFlight(polls[p]) /\ ~CallInFlight(polls[p].call))
    => \A p \in PollIds :
         (polls[p].cached /\ storage.tasks # << >>) => polls[p].settings = storage.connection

\* the storage writes and the timers of the TaskPoller that a step adds
WritesIssued ==
  { storageWrites'[i] : i \in 1..Len(storageWrites') }
    \ { storageWrites[i] : i \in 1..Len(storageWrites) }
TimersScheduled == timers' \ timers

\* C21: the TaskPoller issues no storage write and schedules no timer while
\* its settings have enabled = false: a response, an error or the
\* missing-hostname branch handled after the poller was disabled writes
\* nothing and schedules nothing
C21_DisabledPollerWritesNothing ==
  [][(WritesIssued # {} \/ TimersScheduled # {}) => settings.enabled]_vars

====
